---- MODULE Spec2Model ----
(***************************************************************************)
(* io_bench: partition sizing, partition writing and clearing, the six     *)
(* parser adapters, the resource monitor and the benchmark runner, and the *)
(* battery of benchmarks.  Every component has its own specification over  *)
(* the variables it owns; the variables of the other components stay at    *)
(* their idle values.                                                      *)
(***************************************************************************)
EXTENDS Integers, Sequences, FiniteSets, TLC

\* ------------------------------------------------------------------ bounds
MaxRows == 4
MaxTarget == 4
MaxChunk == 3
MaxProbeBytes == 2
MaxPartRows == 2
MaxSizeMb == 1
MaxProbeHalfMiB == 2
MaxDeleteFaults == 1
MaxForeign == 3
MaxClock == 2
MaxSamples == 2
MaxRuns == 2
MaxReadRows == 1
MaxCpu == 1
MaxConfig == 2
MaxCalls == 3
MaxRecords == 30
MaxCsvRows == 4
MaxRowsPerFile == 2
MaxTypes == 2

VARIABLES
    \* ---- range discovery (IOBench._find_partition_ranges)
    df_len,            \* len(df)
    target_size,       \* target_size, in bytes
    chunk_size,        \* chunk_size, the probe chunk's rows
    parser_type,       \* the format probed
    probe_bytes,       \* os.path.getsize of the probe file of the chunk starting at a row
    start_idx,         \* _find_partition_ranges: start_idx
    end_idx,           \* _find_partition_end_index: end_idx
    current_size,      \* _find_partition_end_index: current_size
    partition_ranges,  \* _find_partition_ranges: partition_ranges
    tmp_files,         \* probe files of tempfile.NamedTemporaryFile(delete=False) on disk
    pcSizer,           \* position in range discovery
    \* ---- partitions on disk (IOBench.partition, clear_partitions, the parsers)
    parsers,           \* self.parsers
    dirs,              \* the entries of avro_dir, parquet_dir, feather_dir
    source_rows,       \* len(df) of the last partition() call
    part_state,        \* "new", "returned" once partition() returned, "raised" once it raised
    fresh,             \* the directories were empty when partition() was called
    written,           \* the files the last partition() call wrote, per directory
    delete_failed,     \* the entries whose deletion raised in the last clear_partitions()
    delete_faults,     \* how many deletions have raised so far
    removed,           \* the entries the last clear_partitions() removed
    printed,           \* what the last clear_partitions() printed on the console
    read_result,       \* the outcome of the last to_polars() call
    \* ---- the resource monitor and the benchmark runner (utilities/bench.py)
    clock,             \* time.perf_counter(), in polling intervals
    mon_active,        \* ContinuousMonitor.active
    metrics,           \* ContinuousMonitor.metrics
    mon_start_time,    \* monitor(): start_time
    mon_current_time,  \* monitor(): current_time
    wake_at,           \* the time the sampler's sleep ends
    pcMon,             \* position of the sampling thread
    pcRun,             \* position of _run_benchmark
    num_runs,          \* IOBench.num_runs
    data,              \* what parser.to_polars() gives in this invocation
    read_t0,           \* start_benchmark_time
    rows,              \* _run_benchmark: rows
    params,            \* _run_benchmark: params
    times,             \* _run_benchmark: times
    sizes,             \* _run_benchmark: sizes
    summary,           \* IOBench.summary
    run_error,         \* the exception _run_benchmark raised
    \* ---- the battery of benchmarks (IOBench.battery)
    selected_parsers,  \* the names of self.selected_parsers, in the order of the dict
    benchmark_counter, \* self.benchmark_counter
    history,           \* the battery() calls made so far and what each gave
    config,            \* self.parsers, the list of names the instance was given
    report_result,     \* what the last report() call did
    \* ---- the source file (IOBench.generate_sample)
    source_file,       \* whether self.source_file exists, and its data rows
    sample_call,       \* the last generate_sample() call
    \* ---- CSV2Partitioned (utilities/parsing.py)
    csv_rows,          \* the data rows of self.csv_file
    max_rows_per_file, \* self.max_rows_per_file
    file_types,        \* self.file_types
    out_dirs,          \* the files of out_dir/avro, out_dir/parquet, out_dir/feather
    conv_pos,          \* convert(): how many file types were handled
    conv_printed       \* what convert() printed on the console

sizerVars == <<df_len, target_size, chunk_size, parser_type, probe_bytes, start_idx,
               end_idx, current_size, partition_ranges, tmp_files, pcSizer>>

partVars == <<parsers, dirs, source_rows, part_state, fresh, written,
              delete_failed, delete_faults, removed, printed, read_result>>

runVars == <<clock, mon_active, metrics, mon_start_time, mon_current_time, wake_at, pcMon,
             pcRun, num_runs, data, read_t0, rows, params, times, sizes, summary,
             run_error>>

batVars == <<selected_parsers, benchmark_counter, history, config, report_result>>

sampleVars == <<source_file, sample_call>>

convVars == <<csv_rows, max_rows_per_file, file_types, out_dirs, conv_pos, conv_printed>>

vars == <<sizerVars, partVars, runVars, batVars, sampleVars, convVars>>

Formats == {"avro", "parquet", "feather"}

\* self.available_parsers
ParserNames ==
    {"avro", "parquet_polars", "parquet_arrow", "parquet_fast", "feather", "feather_arrow"}

Range(q) == {q[i] : i \in 1..Len(q)}

Min(a, b) == IF a < b THEN a ELSE b

\* ------------------------------------------------ the Partition Sizer, pure
\* (mutant) the loop goes on while the size has not passed the target
ProbeLoopCond_Inclusive(end, cur, R, T) == end < R /\ cur <= T

\* while end_idx < len(df) and current_size < target_size
ProbeLoopCond(end, cur, R, T) == end < R /\ cur < T

\* (mutant) the next end index is not clamped to len(df)
NextEndIdx_NoClamp(end, c, R) == end + c

\* next_end_idx = min(end_idx + chunk_size, len(df))
NextEndIdx(end, c, R) == Min(end + c, R)

\* (mutant) break as soon as progress was made, whatever the size
ProbeBreak_AnySize(cur, end, start, T) == end > start

\* if current_size > target_size and end_idx > start_idx: break
ProbeBreak(cur, end, start, T) == cur > T /\ end > start

\* (mutant) the end index is returned as it is
EndIndexResult_AsIs(end, start, R) == end

\* return end_idx if end_idx > start_idx else len(df)
EndIndexResult(end, start, R) == IF end > start THEN end ELSE R

\* _find_partition_end_index from the loop state (end, cur); sz[a] is the size of
\* the probe file of the chunk that starts at row a.
RECURSIVE ProbeFrom(_, _, _, _, _, _, _)
ProbeFrom(end, cur, start, R, T, c, sz) ==
    IF ProbeLoopCond(end, cur, R, T)
    THEN LET cur2 == cur + sz[end]
         IN  IF ProbeBreak(cur2, end, start, T)
             THEN EndIndexResult(end, start, R)
             ELSE ProbeFrom(NextEndIdx(end, c, R), cur2, start, R, T, c, sz)
    ELSE EndIndexResult(end, start, R)

FindPartitionEndIndex(start, R, T, c, sz) == ProbeFrom(start, 0, start, R, T, c, sz)

\* (mutant) no fallback range
RangesFallback_None(ranges, R) == ranges

\* if not partition_ranges: partition_ranges.append((0, len(df)))
RangesFallback(ranges, R) == IF ranges = <<>> THEN <<<<0, R>>>> ELSE ranges

\* _find_partition_ranges from the loop state (start, ranges)
RECURSIVE RangesFrom(_, _, _, _, _, _)
RangesFrom(start, ranges, R, T, c, sz) ==
    IF start < R
    THEN LET e == FindPartitionEndIndex(start, R, T, c, sz)
         IN  IF e = start
             THEN RangesFallback(ranges, R)
             ELSE RangesFrom(e, Append(ranges, <<start, e>>), R, T, c, sz)
    ELSE RangesFallback(ranges, R)

FindPartitionRanges(R, T, c, sz) == RangesFrom(0, <<>>, R, T, c, sz)

\* ------------------------------------- the Partition Sizer, one step at a time
SizerInit ==
    /\ df_len \in 0..MaxRows
    /\ target_size \in 0..MaxTarget
    /\ chunk_size \in 1..MaxChunk
    /\ parser_type \in Formats
    /\ probe_bytes \in [0..(df_len - 1) -> 1..MaxProbeBytes]
    /\ start_idx = 0
    /\ end_idx = 0
    /\ current_size = 0
    /\ partition_ranges = <<>>
    /\ tmp_files = 0
    /\ pcSizer = "ranges_loop"

\* while start_idx < len(df): end_idx = await self._find_partition_end_index(...)
EnterEndIndex ==
    /\ pcSizer = "ranges_loop"
    /\ start_idx < df_len
    /\ end_idx' = start_idx
    /\ current_size' = 0
    /\ pcSizer' = "probe_loop"
    /\ UNCHANGED <<df_len, target_size, chunk_size, parser_type, probe_bytes, start_idx,
                   partition_ranges, tmp_files>>

\* one iteration of the probing loop: write the chunk to a temporary file, add its
\* size, break or grow
ProbeStep ==
    /\ pcSizer = "probe_loop"
    /\ ProbeLoopCond(end_idx, current_size, df_len, target_size)
    /\ tmp_files' = tmp_files + 1
    /\ current_size' = current_size + probe_bytes[end_idx]
    /\ IF ProbeBreak(current_size', end_idx, start_idx, target_size)
       THEN /\ pcSizer' = "end_return"
            /\ UNCHANGED end_idx
       ELSE /\ end_idx' = NextEndIdx(end_idx, chunk_size, df_len)
            /\ UNCHANGED pcSizer
    /\ UNCHANGED <<df_len, target_size, chunk_size, parser_type, probe_bytes, start_idx,
                   partition_ranges>>

\* the probing loop's condition fails
ProbeExit ==
    /\ pcSizer = "probe_loop"
    /\ ~ProbeLoopCond(end_idx, current_size, df_len, target_size)
    /\ pcSizer' = "end_return"
    /\ UNCHANGED <<df_len, target_size, chunk_size, parser_type, probe_bytes, start_idx,
                   end_idx, current_size, partition_ranges, tmp_files>>

\* _find_partition_end_index returns; the caller breaks on no progress, or appends the
\* range and moves start_idx
AppendRange ==
    /\ pcSizer = "end_return"
    /\ LET e == EndIndexResult(end_idx, start_idx, df_len)
       IN  IF e = start_idx
           THEN /\ pcSizer' = "fallback"
                /\ UNCHANGED <<partition_ranges, start_idx>>
           ELSE /\ partition_ranges' = Append(partition_ranges, <<start_idx, e>>)
                /\ start_idx' = e
                /\ pcSizer' = "ranges_loop"
    /\ UNCHANGED <<df_len, target_size, chunk_size, parser_type, probe_bytes, end_idx,
                   current_size, tmp_files>>

\* the outer loop ends; the fallback range is added when no range was found
ReturnRanges ==
    /\ pcSizer \in {"ranges_loop", "fallback"}
    /\ pcSizer = "ranges_loop" => ~(start_idx < df_len)
    /\ partition_ranges' = RangesFallback(partition_ranges, df_len)
    /\ pcSizer' = "done"
    /\ UNCHANGED <<df_len, target_size, chunk_size, parser_type, probe_bytes, start_idx,
                   end_idx, current_size, tmp_files>>

\* range discovery is not running
SizerIdle ==
    /\ df_len = 0
    /\ target_size = 0
    /\ chunk_size = 1
    /\ parser_type = "avro"
    /\ probe_bytes = <<>>
    /\ start_idx = 0
    /\ end_idx = 0
    /\ current_size = 0
    /\ partition_ranges = <<>>
    /\ tmp_files = 0
    /\ pcSizer = "idle"

SizerNext == EnterEndIndex \/ ProbeStep \/ ProbeExit \/ AppendRange \/ ReturnRanges

\* ------------------------------------------------ monitor and runner
\* the default polling interval is the unit of time
SleepTicks == 1

NoSummary == [id |-> "none"]

\* no benchmark is running
RunIdle ==
    /\ clock = 0
    /\ mon_active = TRUE
    /\ metrics = <<>>
    /\ mon_start_time = 0
    /\ mon_current_time = 0
    /\ wake_at = 0
    /\ pcMon = "none"
    /\ pcRun = "idle"
    /\ num_runs = 0
    /\ data = [rows |-> 0, cols |-> 0, bytes |-> 0, fails |-> FALSE]
    /\ read_t0 = 0
    /\ rows = <<>>
    /\ params = <<>>
    /\ times = <<>>
    /\ sizes = <<>>
    /\ summary = NoSummary
    /\ run_error = "none"

\* numbers are fractions <<numerator, denominator>> with a positive denominator
Num(n) == <<n, 1>>

\* x / y of Python: ZeroDivisionError when y is zero
TrueDiv(x, y) == IF y[1] = 0 THEN "ZeroDivisionError" ELSE <<x[1] * y[2], x[2] * y[1]>>

RECURSIVE SumSeq(_)
SumSeq(q) == IF q = <<>> THEN 0 ELSE Head(q) + SumSeq(Tail(q))

RECURSIVE MaxSeq(_)
MaxSeq(q) ==
    IF Len(q) = 1 THEN Head(q)
    ELSE LET m == MaxSeq(Tail(q)) IN IF Head(q) > m THEN Head(q) ELSE m

\* statistics.mean: StatisticsError on no data
Mean(q) == IF q = <<>> THEN "StatisticsError" ELSE <<SumSeq(q), Len(q)>>

\* (mutant) the quotient without the test of the divisor
Throughput_Unguarded(total, per) == TrueDiv(total, per)

\* total / per if per else 0
Throughput(total, per) == IF per[1] # 0 THEN TrueDiv(total, per) ELSE Num(0)

\* lines 140-162 of _run_benchmark: the summary, or the exception raised on the way
Summarize(id, m, r, p, t, z) ==
    LET total_time == SumSeq(t)
        total_rows == SumSeq(r)
        total_params == SumSeq(p)
        total_size == SumSeq(z)
        cpu == [i \in 1..Len(m) |-> m[i].cpu_usage]
        thr == [i \in 1..Len(m) |-> m[i].total_threads]
        rows_per_sec == Throughput(Num(total_rows), Num(total_time))
        params_per_sec == Throughput(Num(total_params), Num(total_time))
        params_per_mb ==
            Throughput(Num(total_params), TrueDiv(Num(total_size), Num(1024 * 1024)))
    IN  IF Mean(cpu) = "StatisticsError" THEN [error |-> "StatisticsError"]
        ELSE IF "ZeroDivisionError" \in {rows_per_sec, params_per_sec, params_per_mb}
        THEN [error |-> "ZeroDivisionError"]
        ELSE [error |-> "none",
              id |-> id,
              total_time |-> total_time,
              mean_cpu_usage |-> Mean(cpu),
              mean_thread_count |-> Mean(thr),
              rows_per_sec |-> rows_per_sec,
              params_per_sec |-> params_per_sec,
              total_rows |-> total_rows,
              total_params |-> total_params,
              max_thread_count |-> MaxSeq(thr),
              max_cpu_usage |-> MaxSeq(cpu),
              params_per_mb |-> params_per_mb]

\* Bench(parser, num_runs=...) on a parser whose reads give `data`
RunInit ==
    /\ clock = 0
    /\ mon_active = TRUE
    /\ metrics = <<>>
    /\ mon_start_time = 0
    /\ mon_current_time = 0
    /\ wake_at = 0
    /\ pcMon = "none"
    /\ pcRun = "start"
    /\ num_runs \in 0..MaxRuns
    /\ data \in [rows : 0..MaxReadRows, cols : {5}, bytes : {1}, fails : BOOLEAN]
    /\ read_t0 = 0
    /\ rows = <<>>
    /\ params = <<>>
    /\ times = <<>>
    /\ sizes = <<>>
    /\ summary = NoSummary
    /\ run_error = "none"

\* time passes
Tick ==
    /\ clock < MaxClock
    /\ clock' = clock + 1
    /\ UNCHANGED <<mon_active, metrics, mon_start_time, mon_current_time, wake_at, pcMon,
                   pcRun, num_runs, data, read_t0, rows, params, times, sizes, summary,
                   run_error>>

\* monitor = ContinuousMonitor(); monitor.start()
RunStartMonitor ==
    /\ pcRun = "start"
    /\ mon_active' = TRUE
    /\ metrics' = <<>>
    /\ pcMon' = "begin"
    /\ pcRun' = "loop"
    /\ UNCHANGED <<clock, mon_start_time, mon_current_time, wake_at, num_runs, data,
                   read_t0, rows, params, times, sizes, summary, run_error>>

\* monitor(): start_time = time.perf_counter()
MonBegin ==
    /\ pcMon = "begin"
    /\ mon_start_time' = clock
    /\ pcMon' = "check"
    /\ UNCHANGED <<clock, mon_active, metrics, mon_current_time, wake_at, pcRun, num_runs,
                   data, read_t0, rows, params, times, sizes, summary, run_error>>

\* while self.active
MonCheck ==
    /\ pcMon = "check"
    /\ pcMon' = IF mon_active THEN "sample" ELSE "exited"
    /\ UNCHANGED <<clock, mon_active, metrics, mon_start_time, mon_current_time, wake_at,
                   pcRun, num_runs, data, read_t0, rows, params, times, sizes, summary,
                   run_error>>

\* current_time = time.perf_counter() - start_time
MonReadClock ==
    /\ pcMon = "sample"
    /\ Len(metrics) < MaxSamples
    /\ mon_current_time' = clock - mon_start_time
    /\ pcMon' = "append"
    /\ UNCHANGED <<clock, mon_active, metrics, mon_start_time, wake_at, pcRun, num_runs,
                   data, read_t0, rows, params, times, sizes, summary, run_error>>

\* (mutant) the loop does not sleep between two samples
WakeTime_NoSleep(now) == now

\* time.sleep(self.interval): the earliest time the loop goes on
WakeTime(now) == now + SleepTicks

\* cpu_usage, thread counts, self.metrics.append({...}); time.sleep(self.interval)
MonAppend ==
    /\ pcMon = "append"
    /\ \E cpu \in 0..MaxCpu :
         metrics' = Append(metrics, [time |-> mon_current_time, cpu_usage |-> cpu,
                                     total_threads |-> 2])
    /\ wake_at' = WakeTime(clock)
    /\ pcMon' = "sleep"
    /\ UNCHANGED <<clock, mon_active, mon_start_time, mon_current_time, pcRun, num_runs,
                   data, read_t0, rows, params, times, sizes, summary, run_error>>

\* the sleep ends
MonWake ==
    /\ pcMon = "sleep"
    /\ clock >= wake_at
    /\ pcMon' = "check"
    /\ UNCHANGED <<clock, mon_active, metrics, mon_start_time, mon_current_time, wake_at,
                   pcRun, num_runs, data, read_t0, rows, params, times, sizes, summary,
                   run_error>>

\* for i in range(self.num_runs): start_benchmark_time = time.perf_counter()
RunReadStart ==
    /\ pcRun = "loop"
    /\ Len(times) < num_runs
    /\ read_t0' = clock
    /\ pcRun' = "reading"
    /\ UNCHANGED <<clock, mon_active, metrics, mon_start_time, mon_current_time, wake_at,
                   pcMon, num_runs, data, rows, params, times, sizes, summary, run_error>>

\* parser.to_polars() returns or raises; the measurements are appended
RunReadEnd ==
    /\ pcRun = "reading"
    /\ IF data.fails
       THEN /\ pcRun' = "raised"
            /\ run_error' = "FileNotFoundError"
            /\ UNCHANGED <<rows, params, times, sizes>>
       ELSE /\ rows' = Append(rows, data.rows)
            /\ params' = Append(params, data.rows * data.cols)
            /\ times' = Append(times, clock - read_t0)
            /\ sizes' = Append(sizes, data.bytes)
            /\ pcRun' = "loop"
            /\ UNCHANGED run_error
    /\ UNCHANGED <<clock, mon_active, metrics, mon_start_time, mon_current_time, wake_at,
                   pcMon, num_runs, data, read_t0, summary>>

\* the loop over the runs ends; monitor.stop(): self.active = False
RunStopSignal ==
    /\ pcRun = "loop"
    /\ Len(times) >= num_runs
    /\ mon_active' = FALSE
    /\ pcRun' = "join"
    /\ UNCHANGED <<clock, metrics, mon_start_time, mon_current_time, wake_at, pcMon,
                   num_runs, data, read_t0, rows, params, times, sizes, summary, run_error>>

\* (mutant) stop() does not wait for the thread
JoinReturns_NoWait == TRUE

\* self.monitoring_thread.join() returns once the thread has ended
JoinReturns == pcMon = "exited"

\* monitor.stop() returns
RunJoin ==
    /\ pcRun = "join"
    /\ JoinReturns
    /\ pcRun' = "summary"
    /\ UNCHANGED <<clock, mon_active, metrics, mon_start_time, mon_current_time, wake_at,
                   pcMon, num_runs, data, read_t0, rows, params, times, sizes, summary,
                   run_error>>

\* the summary is computed from the measurements and the samples
RunSummary ==
    /\ pcRun = "summary"
    /\ LET res == Summarize("avro_0", metrics, rows, params, times, sizes)
       IN  IF res.error = "none"
           THEN /\ summary' = res
                /\ pcRun' = "done"
                /\ UNCHANGED run_error
           ELSE /\ run_error' = res.error
                /\ pcRun' = "raised"
                /\ UNCHANGED summary
    /\ UNCHANGED <<clock, mon_active, metrics, mon_start_time, mon_current_time, wake_at,
                   pcMon, num_runs, data, read_t0, rows, params, times, sizes>>

RunNext ==
    \/ Tick \/ RunStartMonitor \/ MonBegin \/ MonCheck \/ MonReadClock \/ MonAppend
    \/ MonWake \/ RunReadStart \/ RunReadEnd \/ RunStopSignal \/ RunJoin \/ RunSummary

\* ------------------------------------------------ partitions on disk
\* the encoders of a format family, in the order _partition writes them
FamilyParsers(f) ==
    CASE f = "avro" -> <<"avro">>
      [] f = "parquet" -> <<"parquet_polars", "parquet_arrow", "parquet_fast">>
      [] f = "feather" -> <<"feather", "feather_arrow">>

\* the directory an available parser reads
ParserDir(p) == CHOOSE f \in Formats : p \in Range(FamilyParsers(f))

\* the conditions under which _partition looks for the ranges of a family
FamilySelected(f, ps) == \E p \in Range(FamilyParsers(f)) : p \in ps

FileExt(f) == "." \o f

\* f'part_{part_number}.avro', f'{parser}_part_{part_number}.parquet' / '.feather'
FileName(p, n, f) ==
    IF f = "avro" THEN "part_" \o ToString(n) \o FileExt(f)
    ELSE p \o "_part_" \o ToString(n) \o FileExt(f)

\* os.path.join(self.output_dir, family), os.path.join(directory, filename)
DirPath(f) == "./data/" \o f
FilePath(f, name) == DirPath(f) \o "/" \o name

\* partition_size = size_mb * 1024 * 1024
PartitionSize(size_mb) == size_mb * 1024 * 1024

\* the sizes a probe file can have: multiples of half a MiB
ProbeSizes == {k * (PartitionSize(1) \div 2) : k \in 1..MaxProbeHalfMiB}

\* the ranges range discovery can return for R rows and target T, over the probe
\* chunk sizes and the sizes of the probe files
DiscoverableRanges(R, T) ==
    {FindPartitionRanges(R, T, c, sz) : c \in 1..MaxChunk, sz \in [0..(R - 1) -> ProbeSizes]}

\* the same, by the rows of the source and the size_mb of the call
Discovered ==
    [R \in 0..MaxPartRows |->
        [size_mb \in 0..MaxSizeMb |-> DiscoverableRanges(R, PartitionSize(size_mb))]]

\* the files _partition writes for one family: one per (selected encoder, range)
FamilyTasks(f, ps, ranges) ==
    {[name |-> FileName(p, n, f), ext |-> FileExt(f), kind |-> "file", rows |-> ranges[n + 1]] :
        n \in 0..(Len(ranges) - 1), p \in Range(FamilyParsers(f)) \cap ps}

\* writing a file replaces the entry of that name
WriteFiles(entries, files) ==
    {e \in entries : \A w \in files : w.name # e.name} \cup files

\* ---- clear_partitions
EntryKinds == {"file", "link", "dir", "other"}

\* one entry of one directory: unlink a file or link, rmdir a directory, leave
\* anything else alone; faults holds the entries whose unlink or rmdir raises
DeleteOutcome(item, faults) ==
    IF item[2].kind \in {"file", "link", "dir"}
    THEN IF item \in faults THEN "failed" ELSE "removed"
    ELSE "skipped"

\* the entries whose unlink or rmdir is attempted and raises
Failures(items, faults) == {item \in items : DeleteOutcome(item, faults) = "failed"}

\* f"[red]Failed to delete {file_path}. Reason: {e}"
FailureMessage(item) ==
    "[red]Failed to delete " \o FilePath(item[1], item[2].name) \o ". Reason: " \o "EACCES"

\* (mutant) the exception ends the loops
ContinueAfter_Abort(outcome) == outcome # "failed"

\* the except clause swallows the exception: the loops go on
ContinueAfter(outcome) == TRUE

\* the loops of clear_partitions over the listed entries, in listing order; the
\* state is the directories and the console
RECURSIVE ClearFrom(_, _, _)
ClearFrom(queue, st, faults) ==
    IF queue = <<>> THEN st
    ELSE LET item == Head(queue)
             o == DeleteOutcome(item, faults)
             st2 == [dirs |-> IF o = "removed"
                              THEN [st.dirs EXCEPT ![item[1]] = @ \ {item[2]}]
                              ELSE st.dirs,
                     printed |-> IF o = "failed"
                                 THEN st.printed \cup {FailureMessage(item)}
                                 ELSE st.printed]
         IN  IF ContinueAfter(o) THEN ClearFrom(Tail(queue), st2, faults) ELSE st2

\* every order of a set
RECURSIVE Orders(_)
Orders(S) ==
    IF S = {} THEN {<<>>}
    ELSE UNION {{<<x>> \o q : q \in Orders(S \ {x})} : x \in S}

\* one order of a set
RECURSIVE SomeOrder(_)
SomeOrder(S) ==
    IF S = {} THEN <<>>
    ELSE LET x == CHOOSE y \in S : TRUE IN <<x>> \o SomeOrder(S \ {x})

Tag(f, q) == [i \in 1..Len(q) |-> <<f, q[i]>>]

\* os.listdir of the three directories, in the order of the outer loop
Listing(d, qa, qp, qf) == Tag("avro", qa) \o Tag("parquet", qp) \o Tag("feather", qf)

AllItems(d) == UNION {{<<f, e>> : e \in d[f]} : f \in Formats}

NoFiles == [f \in Formats |-> {}]

\* the subsets of S of at most k elements
RECURSIVE SubsetsUpTo(_, _)
SubsetsUpTo(S, k) ==
    IF k = 0 \/ S = {} THEN {{}}
    ELSE LET x == CHOOSE y \in S : TRUE
             rest == SubsetsUpTo(S \ {x}, k)
         IN  rest \cup {q \cup {x} : q \in SubsetsUpTo(S \ {x}, k - 1)}

\* the entries whose deletion is attempted
Deletable(d) == {item \in AllItems(d) : item[2].kind \in {"file", "link", "dir"}}

\* clear_partitions() on the directories as they are, with every listing order
ClearPartitions ==
    \E faults \in SubsetsUpTo(Deletable(dirs), MaxDeleteFaults - delete_faults) :
      \E qa \in Orders(dirs["avro"]), qp \in Orders(dirs["parquet"]),
         qf \in Orders(dirs["feather"]) :
        LET st == ClearFrom(Listing(dirs, qa, qp, qf), [dirs |-> dirs, printed |-> {}], faults)
        IN  /\ dirs' = st.dirs
            /\ printed' = st.printed
            /\ delete_failed' = Failures(AllItems(dirs), faults)
            /\ delete_faults' = delete_faults + Cardinality(faults)
            /\ removed' = AllItems(dirs) \ AllItems(st.dirs)
            /\ UNCHANGED <<parsers, source_rows, part_state, fresh, written, read_result>>

\* ---- partition()
\* (mutant) the directories are not cleared before the partitions are written
PartitionClear_Skipped(d, faults) == [dirs |-> d, printed |-> {}]

\* the clear_partitions() call of _partition
PartitionClear(d, faults) ==
    ClearFrom(Listing(d, SomeOrder(d["avro"]), SomeOrder(d["parquet"]),
                      SomeOrder(d["feather"])),
              [dirs |-> d, printed |-> {}], faults)

NoRead == [parser |-> "none", status |-> "none", count |-> 0, mult |-> <<>>]

\* partition(size_mb, chunk_sizes) on a source file of R rows: the ranges of every
\* selected family are found, the directories are cleared, every partition is
\* written, and all writes are awaited
Partition ==
    /\ part_state = "new"
    /\ \E R \in 0..MaxPartRows :
      \E ranges \in UNION {[{f \in Formats : FamilySelected(f, parsers)} ->
                               Discovered[R][size_mb]] : size_mb \in 0..MaxSizeMb} :
        \E faults \in SubsetsUpTo(Deletable(dirs), MaxDeleteFaults - delete_faults) :
          LET st == PartitionClear(dirs, faults)
              files == [f \in Formats |->
                          IF f \in DOMAIN ranges THEN FamilyTasks(f, parsers, ranges[f])
                          ELSE {}]
          IN  /\ dirs' = [f \in Formats |-> WriteFiles(st.dirs[f], files[f])]
              /\ written' = files
              /\ printed' = st.printed
              /\ delete_failed' = Failures(AllItems(dirs), faults)
              /\ delete_faults' = delete_faults + Cardinality(faults)
              /\ removed' = AllItems(dirs) \ AllItems(st.dirs)
              /\ fresh' = (dirs = NoFiles)
              /\ source_rows' = R
              /\ part_state' = "returned"
              /\ read_result' = NoRead
              /\ UNCHANGED parsers

\* (mutant) the directories are cleared before the ranges are looked for
DirsAtDiscoveryFailure_Cleared(d) == PartitionClear(d, {}).dirs

\* the directories when _find_partition_ranges raises: clear_partitions() is called
\* after the loop over the families, so nothing was deleted yet
DirsAtDiscoveryFailure(d) == d

\* partition() when range discovery raises for a selected family (the probe file
\* cannot be written): the exception leaves _partition and partition()
PartitionRaises ==
    /\ part_state = "new"
    /\ \E f \in Formats : FamilySelected(f, parsers)
    /\ \E R \in 1..MaxPartRows :
        /\ dirs' = DirsAtDiscoveryFailure(dirs)
        /\ written' = NoFiles
        /\ printed' = {}
        /\ delete_failed' = {}
        /\ removed' = AllItems(dirs) \ AllItems(dirs')
        /\ fresh' = (dirs = NoFiles)
        /\ source_rows' = R
        /\ part_state' = "raised"
        /\ read_result' = NoRead
        /\ UNCHANGED <<parsers, delete_faults>>

\* ---- the parser adapters
\* how many of the files hold row r, and the rows of all the files
Mult(files, r) == Cardinality({e \in files : e.rows[1] <= r /\ r < e.rows[2]})

RECURSIVE RowCount(_)
RowCount(files) ==
    IF files = {} THEN 0
    ELSE LET e == CHOOSE x \in files : TRUE
         IN  (e.rows[2] - e.rows[1]) + RowCount(files \ {e})

Concat(p, files) ==
    [parser |-> p, status |-> "ok", count |-> RowCount(files),
     mult |-> [r \in 0..(MaxPartRows - 1) |-> Mult(files, r)]]

Raised(p, what) == [parser |-> p, status |-> what, count |-> 0, mult |-> <<>>]

\* AvroParser, ArrowParquetParser, FastParquetParser, FeatherParser,
\* ArrowFeatherParser: glob(dir/*), read every file, concat or raise
GlobToPolars(p, entries) ==
    IF entries # {} THEN Concat(p, entries)
    ELSE Raised(p, "FileNotFoundError: No data collected!")

\* PolarsParquetParser: pl.read_parquet(f'{dir}/*.parquet'); the library raises its
\* own error when the pattern matches no file
PolarsToPolars(p, entries) ==
    LET matching == {e \in entries : e.ext = ".parquet"}
    IN  IF matching # {} THEN Concat(p, matching)
        ELSE Raised(p, "polars: no matching files found")

ToPolars(p, entries) ==
    IF p = "parquet_polars" THEN PolarsToPolars(p, entries) ELSE GlobToPolars(p, entries)

\* parser.to_polars() of one of the six adapters on its directory
Read ==
    \E p \in ParserNames :
        /\ read_result' = ToPolars(p, dirs[ParserDir(p)])
        /\ UNCHANGED <<parsers, dirs, source_rows, part_state, fresh, written,
                       delete_failed, delete_faults, removed, printed>>

\* no CSV2Partitioned object exists
ConvIdle ==
    /\ csv_rows = 0
    /\ max_rows_per_file = 1
    /\ file_types = <<>>
    /\ out_dirs = [f \in Formats |-> {}]
    /\ conv_pos = 0
    /\ conv_printed = {}

\* generate_sample() was not called
NoSampleCall == [called |-> FALSE, records |-> 0, created |-> FALSE]

\* generate_sample() is not running
SampleIdle ==
    /\ source_file = [exists |-> FALSE, rows |-> 0]
    /\ sample_call = NoSampleCall

\* report() was not called
NoReport == [status |-> "none", input |-> <<>>, files |-> {}, table_ids |-> <<>>]

\* no instance is benchmarking
BatIdle ==
    /\ config = <<>>
    /\ selected_parsers = <<>>
    /\ benchmark_counter = 0
    /\ history = <<>>
    /\ report_result = NoReport

PartIdle ==
    /\ parsers = {}
    /\ dirs = NoFiles
    /\ source_rows = 0
    /\ part_state = "new"
    /\ fresh = TRUE
    /\ written = NoFiles
    /\ delete_failed = {}
    /\ delete_faults = 0
    /\ removed = {}
    /\ printed = {}
    /\ read_result = NoRead

\* the parsers main() selects
MainParsers == {"avro", "parquet_polars", "feather"}

\* what an earlier partition() of the instance of main() left in the directories,
\* for a source of one row
EarlierRun == [f \in Formats |-> FamilyTasks(f, MainParsers, <<<<0, 1>>>>)]

\* IOBench(source_file, parsers=...) over an output directory that is empty or holds
\* the partitions of an earlier run
InitPartition ==
    /\ SizerIdle
    /\ RunIdle
    /\ SampleIdle
    /\ ConvIdle
    /\ BatIdle
    /\ parsers \in SUBSET ParserNames
    /\ dirs \in {NoFiles, EarlierRun}
    /\ source_rows = 0
    /\ part_state = "new"
    /\ fresh = TRUE
    /\ written = NoFiles
    /\ delete_failed = {}
    /\ delete_faults = 0
    /\ removed = {}
    /\ printed = {}
    /\ read_result = NoRead

PartitionNext == Partition \/ PartitionRaises \/ Read

SpecPartition ==
    InitPartition /\ [][PartitionNext /\ UNCHANGED <<sizerVars, runVars, batVars, sampleVars, convVars>>]_vars

\* entries that something else put into the directories: one of each kind
ForeignEntries ==
    {[name |-> k \o "1", ext |-> "", kind |-> k, rows |-> <<0, 0>>] : k \in EntryKinds}

\* clear_partitions() called on directories that hold foreign entries
InitClear ==
    /\ SizerIdle
    /\ RunIdle
    /\ SampleIdle
    /\ ConvIdle
    /\ BatIdle
    /\ parsers = ParserNames
    /\ dirs \in [Formats -> SUBSET ForeignEntries]
    /\ Cardinality(AllItems(dirs)) <= MaxForeign
    /\ source_rows = 0
    /\ part_state = "new"
    /\ fresh = FALSE
    /\ written = NoFiles
    /\ delete_failed = {}
    /\ delete_faults = 0
    /\ removed = {}
    /\ printed = {}
    /\ read_result = NoRead

SpecClear == InitClear /\ [][ClearPartitions /\ UNCHANGED <<sizerVars, runVars, batVars, sampleVars, convVars>>]_vars

\* ------------------------------------------------ the battery of benchmarks
\* the names a configuration can hold: the available parsers and an unknown one
ConfigNames == ParserNames \cup {"csv"}

RECURSIVE ConfigLists(_)
ConfigLists(n) ==
    IF n = 0 THEN {<<>>}
    ELSE ConfigLists(n - 1) \cup
         {Append(q, x) : q \in {c \in ConfigLists(n - 1) : Len(c) = n - 1}, x \in ConfigNames}

\* if name in self.available_parsers
IsAvailable(name) == name \in ParserNames

\* the keys of self.available_parsers, in the order of the dict
AvailableOrder ==
    <<"avro", "parquet_polars", "parquet_arrow", "parquet_fast", "feather", "feather_arrow">>

\* (mutant) the comprehension runs over the available parsers, not over the
\* configured names
SelectedParsers_DictOrder(cfg) ==
    SelectSeq(AvailableOrder, LAMBDA name : name \in Range(cfg))

\* {name: self.available_parsers[name] for name in self.parsers if name in
\* self.available_parsers}: the recognized names, each once, in the order of their
\* first occurrence
RECURSIVE SelectedParsers(_)
SelectedParsers(cfg) ==
    IF cfg = <<>> THEN <<>>
    ELSE LET front == SelectedParsers(SubSeq(cfg, 1, Len(cfg) - 1))
             name == cfg[Len(cfg)]
         IN  IF IsAvailable(name) /\ name \notin Range(front)
             THEN Append(front, name) ELSE front

\* the suffix argument of battery(): None, or a string
NoSuffix == [given |-> FALSE, text |-> ""]
Suffixes == {NoSuffix, [given |-> TRUE, text |-> "_test"], [given |-> TRUE, text |-> "_0"]}

\* if suffix is None: suffix = f'_{self.benchmark_counter}'
RunSuffix(sfx, counter) == IF sfx.given THEN sfx.text ELSE "_" \o ToString(counter)

\* (mutant) the counter is incremented on every call
NextCounter_EveryCall(sfx, counter) == counter + 1

\* if suffix is None: self.benchmark_counter += 1
NextCounter(sfx, counter) == IF sfx.given THEN counter ELSE counter + 1

\* id=f'{name}{suffix}'
BenchId(name, suffix) == name \o suffix

\* the loop of battery() over self.selected_parsers.items() from `names` on, with
\* runs >= 1: Bench(parser, ...).benchmark() reads the parser's directory; an
\* exception of the read leaves battery() at once, and the benchmarks made so far
\* are dropped with its frame; a benchmark that returns is appended
RECURSIVE RunBenchmarks(_, _, _)
RunBenchmarks(names, suffix, d) ==
    IF names = <<>>
    THEN [status |-> "returned", ids |-> <<>>, reads |-> <<>>, error |-> "none"]
    ELSE LET name == Head(names)
             r == ToPolars(name, d[ParserDir(name)])
         IN  IF r.status # "ok"
             THEN [status |-> "raised", ids |-> <<>>, reads |-> <<name>>, error |-> r.status]
             ELSE LET rest == RunBenchmarks(Tail(names), suffix, d)
                  IN  [status |-> rest.status,
                       ids |-> IF rest.status = "returned"
                               THEN <<BenchId(name, suffix)>> \o rest.ids ELSE <<>>,
                       reads |-> <<name>> \o rest.reads,
                       error |-> rest.error]

\* IOBench(source_file, parsers=cfg)
BatInit ==
    /\ config \in ConfigLists(MaxConfig)
    /\ selected_parsers = SelectedParsers(config)
    /\ benchmark_counter = 0
    /\ history = <<>>
    /\ report_result = NoReport

\* battery(suffix=sfx): what the caller receives is the list of the benchmarks, or
\* the exception of the first read that raised; a Bench object carries an id, a
\* summary and the samples, and nothing that marks a failure
Battery ==
    /\ Len(history) < MaxCalls
    /\ \E sfx \in Suffixes :
         LET suffix == RunSuffix(sfx, benchmark_counter)
             res == RunBenchmarks(selected_parsers, suffix, dirs)
         IN  /\ benchmark_counter' = NextCounter(sfx, benchmark_counter)
             /\ history' = Append(history,
                                  [suffix |-> sfx,
                                   status |-> res.status,
                                   ids |-> res.ids,
                                   failed |-> [k \in 1..Len(res.ids) |-> FALSE],
                                   reads |-> res.reads,
                                   error |-> res.error])
    /\ UNCHANGED <<config, selected_parsers, report_result>>

\* ------------------------------------------------ the source file
\* len(pd.DataFrame(data)) with every column a list of three values repeated
\* records // 3 times
SampleRows(records) == 3 * (records \div 3)

\* IOBench(source_file): the file does not exist, or exists with some rows
SampleInit ==
    /\ source_file \in {[exists |-> FALSE, rows |-> 0]} \cup
                       {[exists |-> TRUE, rows |-> r] : r \in 0..MaxPartRows}
    /\ sample_call = NoSampleCall

\* generate_sample(records): an existing file is left alone; else the frame is built
\* and written with to_csv
GenerateSample ==
    \E records \in 0..MaxRecords :
        IF source_file.exists
        THEN /\ sample_call' = [called |-> TRUE, records |-> records, created |-> FALSE]
             /\ UNCHANGED source_file
        ELSE /\ source_file' = [exists |-> TRUE, rows |-> SampleRows(records)]
             /\ sample_call' = [called |-> TRUE, records |-> records, created |-> TRUE]

InitSample == SizerIdle /\ PartIdle /\ RunIdle /\ BatIdle /\ SampleInit /\ ConvIdle

SpecSample ==
    InitSample /\ [][GenerateSample /\ UNCHANGED <<sizerVars, partVars, runVars, batVars, convVars>>]_vars

\* ------------------------------------------------ CSV2Partitioned
DefaultFileTypes == <<"avro", "parquet", "feather">>

\* the file types a caller can name: the three formats and an unsupported one
TypeNames == Formats \cup {"csv"}

RECURSIVE TypeLists(_)
TypeLists(n) ==
    IF n = 0 THEN {<<>>}
    ELSE TypeLists(n - 1) \cup
         {Append(q, x) : q \in {c \in TypeLists(n - 1) : Len(c) = n - 1}, x \in TypeNames}

\* self.file_types = file_types if file_types else ['avro', 'parquet', 'feather']
FileTypes(given) == IF given # <<>> THEN given ELSE DefaultFileTypes

\* slice_pairs = [(start, min(start + m, num_rows)) for start in range(0, num_rows, m)]
SlicePairs(n, m) ==
    [i \in 1..((n + m - 1) \div m) |-> <<(i - 1) * m, Min((i - 1) * m + m, n)>>]

\* polars DataFrame.slice(offset, length): the rows [offset, offset + length) that
\* exist
PolarsSlice(n, offset, length) == <<Min(offset, n), Min(offset + length, n)>>

\* the loop of _convert: partition = polars_df.slice(start, end), written to
\* part_{i}.{ext}
ConvertedFiles(n, m, ext) ==
    {[name |-> "part_" \o ToString(i - 1) \o "." \o ext,
      idx |-> i - 1,
      rows |-> PolarsSlice(n, SlicePairs(n, m)[i][1], SlicePairs(n, m)[i][2]),
      stale |-> FALSE] : i \in 1..Len(SlicePairs(n, m))}

\* a file an earlier conversion left in the folder of a format
StaleFile(f) == [name |-> "part_0." \o f, idx |-> 0, rows |-> <<0, 0>>, stale |-> TRUE]

\* CSV2Partitioned(csv_file, out_dir, max_rows_per_file, file_types)
ConvInit ==
    /\ csv_rows \in 0..MaxCsvRows
    /\ max_rows_per_file \in 1..MaxRowsPerFile
    /\ file_types \in {FileTypes(g) : g \in TypeLists(MaxTypes)}
    /\ out_dirs \in [Formats -> {{}} ] \cup
                    {[f \in Formats |-> IF f = g THEN {StaleFile(f)} ELSE {}] : g \in Formats}
    /\ conv_pos = 0
    /\ conv_printed = {}

\* one turn of the loop of convert(): convert_to_avro / _parquet / _feather convert
\* into an empty folder and skip a folder that holds something; an unsupported
\* type is reported
ConvertStep ==
    /\ conv_pos < Len(file_types)
    /\ LET t == file_types[conv_pos + 1]
       IN  IF t \notin Formats
           THEN /\ conv_printed' = conv_printed \cup {"[red]Unsupported file type: " \o t}
                /\ UNCHANGED out_dirs
           ELSE IF out_dirs[t] = {}
           THEN /\ out_dirs' = [out_dirs EXCEPT
                                  ![t] = ConvertedFiles(csv_rows, max_rows_per_file, t)]
                /\ UNCHANGED conv_printed
           ELSE /\ conv_printed' = conv_printed \cup
                       {"[yellow]Skipping conversion: './data/" \o t \o "' is not empty."}
                /\ UNCHANGED out_dirs
    /\ conv_pos' = conv_pos + 1
    /\ UNCHANGED <<csv_rows, max_rows_per_file, file_types>>

InitConvert == SizerIdle /\ PartIdle /\ RunIdle /\ BatIdle /\ SampleIdle /\ ConvInit

SpecConvert ==
    InitConvert /\
    [][ConvertStep /\ UNCHANGED <<sizerVars, partVars, runVars, batVars, sampleVars>>]_vars

InitSizer == SizerInit /\ PartIdle /\ RunIdle /\ BatIdle /\ SampleIdle /\ ConvIdle

SpecSizer == InitSizer /\ [][SizerNext /\ UNCHANGED <<partVars, runVars, batVars, sampleVars, convVars>>]_vars

\* range discovery is sequential code on one thread: it keeps taking steps until it
\* returns
SpecSizerLive ==
    SpecSizer /\ WF_vars(SizerNext /\ UNCHANGED <<partVars, runVars, batVars, sampleVars, convVars>>)

InitRunner == SizerIdle /\ PartIdle /\ RunInit /\ BatIdle /\ SampleIdle /\ ConvIdle

SpecRunner ==
    InitRunner /\ [][RunNext /\ UNCHANGED <<sizerVars, partVars, batVars, sampleVars, convVars>>]_vars

\* ---- report()
\* summary_metrics of generate_report, in the order they are read
SummaryMetrics ==
    <<"total_time", "mean_time_per_row", "mean_cpu_usage", "mean_thread_count",
      "rows_per_sec", "params_per_sec", "total_rows", "max_thread_count", "max_cpu_usage">>

\* the keys of the summary _run_benchmark stores in a Bench
SummaryKeys ==
    DOMAIN Summarize("id", <<[time |-> 0, cpu_usage |-> 0, total_threads |-> 1]>>,
                     <<>>, <<>>, <<>>, <<>>) \ {"error"}

\* the metrics bench.summary[metric] raises KeyError for
MissingMetrics(keys) == {i \in 1..Len(SummaryMetrics) : SummaryMetrics[i] \notin keys}

\* generate_report(benchmark_results, dir): create_summary_data reads every summary
\* metric of every result before any file is written; the files are written once
\* the tables are built
GenerateReport(ids, keys) ==
    IF ids # <<>> /\ MissingMetrics(keys) # {}
    THEN LET first == CHOOSE i \in MissingMetrics(keys) :
                          \A j \in MissingMetrics(keys) : i <= j
         IN  [status |-> "KeyError: '" \o SummaryMetrics[first] \o "'",
              input |-> ids, files |-> {}, table_ids |-> <<>>]
    ELSE [status |-> "ok", input |-> ids,
          files |-> {"summary_report.html", "polling_report.html"},
          table_ids |-> ids]

\* report(benchmark_results) on the list some battery() call returned
Report ==
    /\ \E i \in 1..Len(history) :
         /\ history[i].status = "returned"
         /\ report_result' = GenerateReport(history[i].ids, SummaryKeys)
    /\ UNCHANGED <<config, selected_parsers, benchmark_counter, history>>

\* the partitions a partition() call of this instance leaves for a source of one row
OwnPartitions(ps) == [f \in Formats |-> FamilyTasks(f, ps, <<<<0, 1>>>>)]

\* the instance is constructed over an output directory that is empty or holds the
\* partitions of an earlier run and partition() was not called, or partition() was
\* called once and has returned
InitBattery ==
    /\ SizerIdle
    /\ RunIdle
    /\ SampleIdle
    /\ ConvIdle
    /\ BatInit
    /\ parsers = Range(config) \cap ParserNames
    /\ part_state \in {"new", "returned"}
    /\ dirs \in IF part_state = "new" THEN {NoFiles, EarlierRun}
                ELSE {OwnPartitions(parsers)}
    /\ source_rows = IF part_state = "new" THEN 0 ELSE 1
    /\ fresh = TRUE
    /\ written = IF part_state = "new" THEN NoFiles ELSE dirs
    /\ delete_failed = {}
    /\ delete_faults = 0
    /\ removed = {}
    /\ printed = {}
    /\ read_result = NoRead

BatteryNext == Battery \/ Report

SpecBattery ==
    InitBattery /\ [][BatteryNext /\ UNCHANGED <<sizerVars, partVars, runVars, sampleVars, convVars>>]_vars

\* ------------------------------------------------ range discovery: properties
\* the step machine and the pure function compute the same ranges
SizerAgrees ==
    pcSizer = "done" =>
        partition_ranges = FindPartitionRanges(df_len, target_size, chunk_size, probe_bytes)

\* the starts of the probe chunks a range [s, e) is made of
RECURSIVE ChunkStarts(_, _)
ChunkStarts(s, e) == IF s < e THEN {s} \cup ChunkStarts(s + chunk_size, e) ELSE {}

RECURSIVE SumBytes(_)
SumBytes(S) == IF S = {} THEN 0
               ELSE LET a == CHOOSE x \in S : TRUE
                    IN  probe_bytes[a] + SumBytes(S \ {a})

\* the accumulated probed size of the probe chunks range r contains
RangeBytes(r) == SumBytes(ChunkStarts(r[1], r[2]))

\* C1: the returned ranges are non-empty as a sequence, start at 0, each starts
\* where the previous one ends, and the last ends at len(df): contiguous,
\* non-overlapping, covering exactly [0, R).
C1_RangesPartitionRows ==
    pcSizer = "done" =>
        /\ Len(partition_ranges) >= 1
        /\ partition_ranges[1][1] = 0
        /\ \A i \in 1..Len(partition_ranges) : partition_ranges[i][1] <= partition_ranges[i][2]
        /\ \A i \in 1..(Len(partition_ranges) - 1) :
               partition_ranges[i + 1][1] = partition_ranges[i][2]
        /\ partition_ranges[Len(partition_ranges)][2] = df_len

C1_Witness ==
    /\ pcSizer = "done"
    /\ Len(partition_ranges) >= 3
    /\ df_len = MaxRows

\* C2 (as claimed): every range but the last has accumulated probed size >= T.
C2_AllButLastReachTarget ==
    pcSizer = "done" =>
        \A i \in 1..(Len(partition_ranges) - 1) :
            RangeBytes(partition_ranges[i]) >= target_size

\* C2 (amended): every range but the last either has accumulated probed size >= T
\* or stopped just before the probe chunk that takes it over T: its size plus the
\* size of the next probe chunk is > T.
C2_ReachOrNextCrosses ==
    pcSizer = "done" =>
        \A i \in 1..(Len(partition_ranges) - 1) :
            \/ RangeBytes(partition_ranges[i]) >= target_size
            \/ RangeBytes(partition_ranges[i]) + probe_bytes[partition_ranges[i][2]]
                   > target_size

C2_Witness ==
    /\ pcSizer = "done"
    /\ Len(partition_ranges) >= 2
    /\ RangeBytes(partition_ranges[1]) < target_size
    /\ partition_ranges[1][2] - partition_ranges[1][1] > chunk_size

\* C3: for R = 0 or 0 < R < chunk_size exactly one range is returned, and it is
\* [0, R).
C3_SmallDatasetOneRange ==
    (pcSizer = "done" /\ (df_len = 0 \/ df_len < chunk_size)) =>
        partition_ranges = <<<<0, df_len>>>>

C3_Witness ==
    /\ pcSizer = "done"
    /\ 0 < df_len
    /\ df_len < chunk_size
    /\ target_size > 0
    /\ tmp_files > 0

\* the target is smaller than the probe file of every chunk
TinyTarget == \A a \in 0..(df_len - 1) : target_size < probe_bytes[a]

\* C12 (as claimed): with a target smaller than every probe chunk's size, range
\* discovery returns exactly one range, [0, R).
C12_TinyTargetOneRange ==
    (pcSizer = "done" /\ TinyTarget) => partition_ranges = <<<<0, df_len>>>>

\* C12 (amended): with a target smaller than every probe chunk's size, range
\* discovery returns the single range [0, R) when the target is 0 or R = 0;
\* otherwise every range is one probe chunk: ceil(R / c) ranges, the i-th being
\* [(i-1)*c, min(i*c, R)), which is the single range [0, R) only when R <= c.
C12_TinyTargetOneChunkPerRange ==
    (pcSizer = "done" /\ TinyTarget) =>
        IF target_size = 0 \/ df_len = 0
        THEN partition_ranges = <<<<0, df_len>>>>
        ELSE /\ Len(partition_ranges) = (df_len + chunk_size - 1) \div chunk_size
             /\ \A i \in 1..Len(partition_ranges) :
                    partition_ranges[i] =
                        <<(i - 1) * chunk_size,
                          IF i * chunk_size < df_len THEN i * chunk_size ELSE df_len>>

C12_Witness ==
    /\ pcSizer = "done"
    /\ TinyTarget
    /\ target_size > 0
    /\ df_len > chunk_size
    /\ Len(partition_ranges) >= 2

\* C15 (as claimed): with a row-chunk size r for the format, an R-row dataset
\* (R >= 1) is split into ceil(R / r) ranges.
C15_RangeCountIsCeil ==
    (pcSizer = "done" /\ df_len >= 1) =>
        Len(partition_ranges) = (df_len + chunk_size - 1) \div chunk_size

\* C19: every call of _find_partition_end_index returns an end index e with
\* start_idx < e <= len(df), so the 'no progress' break is never taken, no range is
\* empty when R >= 1, there are at most R ranges, and range discovery terminates.
C19_ForwardProgress ==
    /\ [][pcSizer = "end_return" =>
            (start_idx < start_idx' /\ start_idx' <= df_len /\ pcSizer' = "ranges_loop")]_vars
    /\ [](pcSizer # "fallback")
    /\ [](df_len >= 1 =>
            /\ Len(partition_ranges) <= df_len
            /\ \A i \in 1..Len(partition_ranges) :
                   partition_ranges[i][1] < partition_ranges[i][2])
    /\ <>(pcSizer = "done")

C19_Witness ==
    /\ pcSizer = "done"
    /\ df_len = MaxRows
    /\ target_size > 0
    /\ probe_bytes[0] > target_size
    /\ Len(partition_ranges) >= 2

\* C20 (as claimed): the temporary file of a probe step is deleted by the end of
\* the step, so between the steps of range discovery, and when it returns, no
\* probe file is on disk.
C20_ProbeFilesDeleted == tmp_files = 0

\* ------------------------------------------------ partitions on disk: properties
\* C4 (as claimed): after partition() on empty directories, a read through every
\* selected parser returns exactly R rows, each source row exactly once.
C4_RoundTripRowCount ==
    (part_state = "returned" /\ fresh /\ read_result.parser \in parsers) =>
        /\ read_result.status = "ok"
        /\ read_result.count = source_rows
        /\ \A r \in 0..(source_rows - 1) : read_result.mult[r] = 1

\* C5 (as claimed): a read of any of the six adapters on a directory with no file
\* raises FileNotFoundError('No data collected!').
C5_EmptyDirRaisesNoData ==
    (read_result.parser \in ParserNames /\ dirs[ParserDir(read_result.parser)] = {}) =>
        read_result.status = "FileNotFoundError: No data collected!"

\* C8 (as claimed): in a clear_partitions() call every entry whose deletion fails is
\* reported with 'Failed to delete <path>. Reason: <error>', and every other entry of
\* the three directories is removed.
C8_EveryEntryRemovedOrReported ==
    [][\A f \in Formats : \A e \in dirs[f] :
          IF <<f, e>> \in delete_failed'
          THEN ("[red]Failed to delete ./data/" \o f \o "/" \o e.name \o ". Reason: EACCES")
                   \in printed'
          ELSE e \notin dirs'[f]]_vars

\* C8 (amended): in a clear_partitions() call every regular file, link or
\* sub-directory whose deletion fails is reported and stays, every other regular
\* file, link or sub-directory of the three directories is removed, and an entry
\* of another kind is neither removed nor reported.
C8_FilesLinksDirsRemovedOrReported ==
    [][\A f \in Formats : \A e \in dirs[f] :
          LET msg == "[red]Failed to delete ./data/" \o f \o "/" \o e.name
                         \o ". Reason: EACCES"
          IN  IF e.kind \in {"file", "link", "dir"}
              THEN IF <<f, e>> \in delete_failed'
                   THEN msg \in printed' /\ e \in dirs'[f]
                   ELSE msg \notin printed' /\ e \notin dirs'[f]
              ELSE msg \notin printed' /\ e \in dirs'[f]]_vars

C8_Witness ==
    /\ delete_failed # {}
    /\ printed # {}
    /\ \E a \in removed, b \in removed : a[1] # b[1]

\* the name _partition gives the file of part n of parser p in family f
C9_Name(p, n, f) ==
    IF f = "avro" THEN "part_" \o ToString(n) \o ".avro"
    ELSE p \o "_part_" \o ToString(n) \o "." \o f

\* C9: when partition() has returned and no deletion failed, every directory holds
\* exactly the files that call wrote: for some k >= 1 ranges that split [0, R), one
\* file per selected encoder of the family and range, under its name, and nothing
\* else; the directory of a family with no selected encoder is empty.
C9_DirsHoldExactlyThisRun ==
    (part_state = "returned" /\ delete_failed = {}) =>
        \A f \in Formats :
            LET sel == Range(FamilyParsers(f)) \cap parsers
            IN  /\ dirs[f] = written[f]
                /\ sel = {} => dirs[f] = {}
                /\ sel # {} =>
                     \E k \in 1..(MaxPartRows + 1) :
                       /\ {e.name : e \in dirs[f]} =
                              {C9_Name(p, n, f) : p \in sel, n \in 0..(k - 1)}
                       /\ Cardinality(dirs[f]) = k * Cardinality(sel)
                       /\ \A e \in dirs[f] :
                            /\ e.kind = "file"
                            /\ \A n \in 0..(k - 1) : \A p \in sel :
                                 e.name = C9_Name(p, n, f) =>
                                   /\ n = 0 => e.rows[1] = 0
                                   /\ n = k - 1 => e.rows[2] = source_rows
                                   /\ \A e2 \in dirs[f] : \A p2 \in sel :
                                        e2.name = C9_Name(p2, n + 1, f) =>
                                            e2.rows[1] = e.rows[2]

C9_Witness ==
    /\ part_state = "returned"
    /\ delete_failed = {}
    /\ removed # {}
    /\ parsers = {"avro", "parquet_arrow", "parquet_fast"}
    /\ Cardinality(dirs["parquet"]) = 4
    /\ dirs["feather"] = {}

NonNegative(x) == x[1] >= 0 /\ x[2] > 0

\* C6: no invocation raises ZeroDivisionError; the throughput fields of a summary
\* are >= 0; with no iteration, or with every elapsed time 0, rows_per_sec and
\* params_per_sec are exactly 0.
C6_ThroughputGuarded ==
    /\ run_error # "ZeroDivisionError"
    /\ pcRun = "done" =>
         /\ NonNegative(summary.rows_per_sec)
         /\ NonNegative(summary.params_per_sec)
         /\ NonNegative(summary.params_per_mb)
         /\ (num_runs = 0 \/ \A i \in 1..Len(times) : times[i] = 0) =>
                /\ summary.rows_per_sec = <<0, 1>>
                /\ summary.params_per_sec = <<0, 1>>

C6_Witness ==
    /\ pcRun = "done"
    /\ num_runs >= 2
    /\ SumSeq(times) = 0
    /\ summary.total_rows > 0
    /\ summary.rows_per_sec = <<0, 1>>

\* stop() has returned
StopReturned ==
    \/ pcRun \in {"summary", "done"}
    \/ pcRun = "raised" /\ run_error \in {"StatisticsError", "ZeroDivisionError"}

\* C7: once stop() has returned the sampling loop has exited, and no sample is
\* appended any more.
C7_StopJoinsSampler ==
    /\ [](StopReturned => pcMon = "exited")
    /\ [][StopReturned => metrics' = metrics]_vars

C7_Witness ==
    /\ pcRun = "summary"
    /\ pcMon = "exited"
    /\ Len(metrics) >= 2

\* C18: the 'time' values of consecutive samples are strictly increasing, and the
\* sample sequence only grows by appending: no sample is removed or rewritten.
C18_SamplesOrderedAppendOnly ==
    /\ [](\A i \in 1..(Len(metrics) - 1) : metrics[i].time < metrics[i + 1].time)
    /\ [][/\ Len(metrics') >= Len(metrics)
          /\ \A i \in 1..Len(metrics) : metrics'[i] = metrics[i]]_vars

C18_Witness ==
    /\ Len(metrics) >= 2
    /\ metrics[1].time > 0
    /\ pcMon = "sleep"

\* C21 (as claimed): whenever an invocation of the runner has ended, by returning or
\* by raising, the sampling loop of the monitor it started has exited (so no sample
\* is appended after the invocation ended).
C21_NoSamplerOutlivesRun ==
    (pcRun = "done" \/ pcRun = "raised") => pcMon = "exited"

\* C22 (as claimed): when the runner computes the statistics of the samples, after
\* monitor.stop() returned, at least one sample was collected, so the computation
\* does not fail on an empty sample sequence.
C22_SampleBeforeSummary ==
    /\ pcRun = "summary" => Len(metrics) >= 1
    /\ run_error # "StatisticsError"

\* ------------------------------------------------ battery: properties
\* the calls before call i that were made with no explicit suffix
DefaultCallsBefore(i) == Cardinality({j \in 1..(i - 1) : ~history[j].suffix.given})

\* C10: benchmark_counter is the number of calls made with no explicit suffix (so a
\* call with an explicit suffix leaves it unchanged); the k-th such call gives the
\* result of every parser the id <name>_<k>; the ids of two default-suffix calls
\* differ, and consecutive ones by a suffix number that is 1 higher.
C10_CounterNumbersDefaultRuns ==
    /\ benchmark_counter = DefaultCallsBefore(Len(history) + 1)
    /\ \A i \in 1..Len(history) :
         (~history[i].suffix.given /\ history[i].status = "returned") =>
            /\ Len(history[i].ids) = Len(selected_parsers)
            /\ \A n \in 1..Len(selected_parsers) :
                 /\ history[i].ids[n] =
                        selected_parsers[n] \o "_" \o ToString(DefaultCallsBefore(i))
                 /\ \A j \in 1..(i - 1) :
                      (~history[j].suffix.given /\ history[j].status = "returned") =>
                          history[j].ids[n] # history[i].ids[n]

C10_Witness ==
    /\ Len(history) = 3
    /\ ~history[1].suffix.given
    /\ history[2].suffix.given
    /\ ~history[3].suffix.given
    /\ selected_parsers # <<>>
    /\ history[1].status = "returned"
    /\ history[3].status = "returned"
    /\ history[3].ids[1] = selected_parsers[1] \o "_1"

\* C11 (as claimed): when the read of a selected parser raises during a battery()
\* call, the caller still receives the results of the call, and among them one for
\* that parser, flagged as failed.
C11_FailedParserFlagged ==
    \A i \in 1..Len(history) :
        \A n \in 1..Len(history[i].reads) :
            LET name == history[i].reads[n]
            IN  ToPolars(name, dirs[ParserDir(name)]).status # "ok" =>
                  /\ history[i].status = "returned"
                  /\ \E k \in 1..Len(history[i].ids) :
                        /\ history[i].ids[k] =
                               name \o RunSuffix(history[i].suffix, DefaultCallsBefore(i))
                        /\ history[i].failed[k]

\* C14 (as claimed): report() on a non-empty list of results of the runner
\* completes, creates summary_report.html and polling_report.html, and the summary
\* table has one row per run id.
C14_ReportCompletes ==
    report_result.input # <<>> =>
        /\ report_result.status = "ok"
        /\ report_result.files = {"summary_report.html", "polling_report.html"}
        /\ report_result.table_ids = report_result.input

\* C16 (as claimed): once battery() was called the instance's data is partitioned:
\* partition() has run, and it returned before the first read of a parser.
C16_PartitionedBeforeFirstRead ==
    /\ history # <<>> => part_state = "returned"
    /\ \A i \in 1..Len(history) : history[i].reads # <<>> => part_state = "returned"

\* the positions of the configured list that hold the first occurrence of a
\* recognized name
C17_Firsts ==
    {n \in 1..Len(config) :
        /\ config[n] \in {"avro", "parquet_polars", "parquet_arrow", "parquet_fast",
                          "feather", "feather_arrow"}
        /\ \A m \in 1..(n - 1) : config[m] # config[n]}

\* C17: for every configured list, a battery() call raises only through a read of
\* a recognized parser; a call in which every read succeeds returns one result per
\* distinct recognized name, in the order of the configuration, with id = name +
\* suffix, none for an unrecognized name, and the empty list when no name is
\* recognized.
C17_UnknownNamesSkipped ==
    \A i \in 1..Len(history) :
        LET ids == history[i].ids
            sfx == IF history[i].suffix.given THEN history[i].suffix.text
                   ELSE "_" \o ToString(DefaultCallsBefore(i))
        IN  /\ history[i].status = "raised" =>
                 /\ history[i].reads # <<>>
                 /\ \E n \in C17_Firsts :
                        config[n] = history[i].reads[Len(history[i].reads)]
            /\ history[i].status = "returned" =>
                 /\ Len(ids) = Cardinality(C17_Firsts)
                 /\ \A n \in C17_Firsts :
                        ids[Cardinality({m \in C17_Firsts : m <= n})] = config[n] \o sfx

C17_Witness ==
    /\ config = <<"csv", "avro">>
    /\ Len(history) = 2
    /\ history[1].status = "returned"
    /\ history[1].ids = <<"avro_test">>
    /\ history[2].ids = <<"avro_0">>

\* ------------------------------------------------ the source file: properties
\* C13 (as claimed): generate_sample(records=n), called when the source file does
\* not exist, creates a source file of exactly n data rows.
C13_SampleHasRequestedRows ==
    sample_call.created => (source_file.exists /\ source_file.rows = sample_call.records)

\* ------------------------------------------------ CSV2Partitioned: properties
\* C24 (as claimed): the file part_i a conversion writes holds exactly the source
\* rows [i*m, min((i+1)*m, n)): no file holds more than m rows, and every source
\* row is in exactly one file of the format.
C24_PartsHoldTheirSlice ==
    \A f \in Formats :
        LET made == {e \in out_dirs[f] : ~e.stale}
        IN  /\ \A e \in made :
                 /\ e.rows[1] = e.idx * max_rows_per_file
                 /\ e.rows[2] = IF (e.idx + 1) * max_rows_per_file < csv_rows
                                THEN (e.idx + 1) * max_rows_per_file ELSE csv_rows
                 /\ e.rows[2] - e.rows[1] <= max_rows_per_file
            /\ made # {} =>
                 \A r \in 0..(csv_rows - 1) :
                     Cardinality({e \in made : e.rows[1] <= r /\ r < e.rows[2]}) = 1

====
